---- MODULE Spec2Model ----
(***************************************************************************)
(* A model of RAPHS (src/raphs): the StarData constructor (catalog lookup, *)
(* per-instrument archive loading, harmonization, binning), the            *)
(* Lomb-Scargle periodogram object and the Driver loop over target stars.  *)
(*                                                                         *)
(* Conventions.  A Python str is a sequence of one-character strings.  A   *)
(* float is a scaled integer: times are in ticks of 1/TicksPerDay day,     *)
(* S-index values and their errors in 1e-3, R'HK in 1e-7, B-V in 1e-3 mag. *)
(* A function that can raise returns Return(v) or Raise(exception name).   *)
(***************************************************************************)
EXTENDS Integers, Sequences, FiniteSets, TLC

VARIABLES
    hd_name,            \* StarData.hd_name
    outlier_threshold,  \* StarData.outlier_threshold
    catalog_df,         \* StarData.catalog_df, the table read from data_dir
    harps_dir,          \* files of data_dir/harps_rv_bank
    hires_dir,          \* files of data_dir/ebps_keck_hires
    catalog_entry,      \* StarData.catalog_entry
    harps_df,           \* StarData.harps_df
    hires_df,           \* StarData.hires_df
    rv_data,            \* StarData.rv_data
    rv_data_bin,        \* StarData.rv_data_bin
    sind_data,          \* StarData.sind_data
    sind_data_bin,      \* StarData.sind_data_bin
    S_index_data,       \* StarData.S_index_data
    pc,                 \* position inside StarData.__init__
    call_hist,          \* per StarData method, what its calls on the built object returned
    exc,                \* the exception that left StarData.__init__, or "none"
    lsp_pc,             \* position of the LSPeriodogram object: "none", "init", "computed", "raised"
    lsp_tels,           \* LSPeriodogram.tels
    lsp_dict,           \* LSPeriodogram.lsp_dict
    lsp_exc,            \* the exception that left the last LSPeriodogram call, or "none"
    fap_power,          \* compute_fap_thresh: its argument power
    fap_ret,            \* compute_fap_thresh: what the calls for the three FAP levels gave
    post_pkl,           \* output_dir/RV_search/post_final.pkl: "missing", or its parameters
    periods_ret,        \* get_periods_from_posterior: what the call gave
    target_list,        \* Driver.target_list
    inj_rec,            \* do_everything's flag inj_rec
    sind,               \* do_everything's flag sind
    star_i,             \* position of the for loop in target_list
    drv_pc,             \* position inside do_everything ("off": no driver runs)
    data,               \* do_everything's local variable data
    rv_search_obj,      \* do_everything's local variable rv_search_obj
    sys_stdout,         \* sys.stdout
    log,                \* log[i]: what the i-th iteration printed to its log.txt
    drv_exc             \* the exception that left do_everything, or "none"

objVars == <<hd_name, outlier_threshold, catalog_df, harps_dir, hires_dir,
             catalog_entry, harps_df, hires_df, rv_data, rv_data_bin,
             sind_data, sind_data_bin, S_index_data, pc, exc>>

mthVars == <<fap_power, fap_ret, post_pkl, periods_ret, call_hist>>

lspVars == <<lsp_pc, lsp_tels, lsp_dict, lsp_exc, mthVars>>

drvVars == <<target_list, inj_rec, sind, star_i, drv_pc, data, rv_search_obj,
             sys_stdout, log, drv_exc>>

----------------------------------------------------------------------------
(* Python values *)

None == [kind |-> "None"]
Unset == [kind |-> "unset"]
NaN == <<"NaN">>
DataFrame(rows) == [kind |-> "DataFrame", rows |-> rows]
Return(v) == [ok |-> TRUE, val |-> v]
Raise(e) == [ok |-> FALSE, exc |-> e]

IsNaN(x) == x = NaN


RECURSIVE SumSeq(_)
SumSeq(s) == IF s = <<>> THEN 0 ELSE Head(s) + SumSeq(Tail(s))

RECURSIVE SplitAcc(_, _, _, _)
SplitAcc(s, i, cur, out) ==
    IF i > Len(s)
    THEN IF cur = <<>> THEN out ELSE Append(out, cur)
    ELSE IF s[i] = " "
         THEN SplitAcc(s, i + 1, <<>>, IF cur = <<>> THEN out ELSE Append(out, cur))
         ELSE SplitAcc(s, i + 1, Append(cur, s[i]), out)

\* str.split(): the maximal runs of non-blank characters
Split(s) == SplitAcc(s, 1, <<>>, <<>>)

RECURSIVE Join(_)
\* ''.join(tokens)
Join(tokens) == IF tokens = <<>> THEN <<>> ELSE Head(tokens) \o Join(Tail(tokens))

\* tokens[:-1]
AllButLast(tokens) == IF tokens = <<>> THEN <<>> ELSE SubSeq(tokens, 1, Len(tokens) - 1)

\* c in s, for a one-character c
HasChar(s, c) == \E i \in 1..Len(s) : s[i] = c

\* 'IV' in s
HasIV(s) == \E i \in 1..(Len(s) - 1) : s[i] = "I" /\ s[i + 1] = "V"

\* str(x) of a catalog cell: a text cell is itself, a missing cell prints as nan
Str(x) == IF IsNaN(x) THEN <<"n", "a", "n">> ELSE x

\* pd.read_csv(path): the table of the file named name in directory dir
ReadCsv(dir, name) ==
    IF \E f \in dir : f.name = name
    THEN Return(DataFrame((CHOOSE f \in dir : f.name = name).rows))
    ELSE Raise("FileNotFoundError")

CsvSuffix == <<".", "c", "s", "v">>
KeckSuffix == <<"_", "K", "E", "C", "K", ".", "v", "e", "l", "s">>
TycPrefix == <<"T", "Y", "C">>

----------------------------------------------------------------------------
(* Program constants *)

TicksPerDay == 10
HARPS_PRE_END == 2457163
HARPS_POST_START == 2457173
HIRES_UPGRADE == 2453236
DEFAULT_OUTLIER_THRESHOLD == 5
ERRS_HARPS_PRE == 7
ERRS_HARPS_POST == 6
ERRS_HIRES_PRE == 10
ERRS_HIRES_POST == 9

----------------------------------------------------------------------------
(* StarData._load_catalog_entry *)

\* a lookup that keeps the last matching row instead of the first
LoadCatalogEntry_Last(df, name) ==
    LET matches == SelectSeq(df, LAMBDA r : r.HD = name)
    IN  IF Len(matches) = 0 THEN Raise("ValueError") ELSE Return(matches[Len(matches)])

LoadCatalogEntry(df, name) ==
    LET matches == SelectSeq(df, LAMBDA r : r.HD = name)
    IN  IF Len(matches) = 0 THEN Raise("ValueError") ELSE Return(matches[1])

(* StarData._load_harps_rvbank_data *)

HarpsTryTyc(entry, dir) ==
    LET a == ReadCsv(dir, TycPrefix \o Str(entry.Tycho2) \o CsvSuffix)
    IN  IF a.ok THEN a ELSE Raise("FileNotFoundError")

HarpsTryHip(entry, dir) ==
    IF IsNaN(entry.HIP) THEN Raise("AttributeError")
    ELSE LET a == ReadCsv(dir, Join(Split(entry.HIP)) \o CsvSuffix)
         IN  IF a.ok THEN a ELSE HarpsTryTyc(entry, dir)

\* a HARPS loader that leaves the GJ alias out
HarpsTryGj_Skipped(entry, dir) == HarpsTryHip(entry, dir)

HarpsTryGj(entry, dir) ==
    IF IsNaN(entry.GJ) THEN Raise("AttributeError")
    ELSE LET a == ReadCsv(dir, Join(Split(entry.GJ)) \o CsvSuffix)
         IN  IF a.ok THEN a ELSE HarpsTryHip(entry, dir)

HarpsTryStripped(name, entry, dir) ==
    IF HasChar(name, "A")
    THEN LET a == ReadCsv(dir, Join(AllButLast(Split(name))) \o CsvSuffix)
         IN  IF a.ok THEN a ELSE HarpsTryGj(entry, dir)
    ELSE HarpsTryGj(entry, dir)

LoadHarpsRvbankData(name, entry, dir) ==
    LET a == ReadCsv(dir, Join(Split(name)) \o CsvSuffix)
    IN  IF a.ok THEN a ELSE HarpsTryStripped(name, entry, dir)

(* StarData._load_hires_ebps_data *)

HiresTryHip(entry, dir) ==
    IF IsNaN(entry.HIP) THEN Raise("AttributeError")
    ELSE LET a == ReadCsv(dir, Join(Split(entry.HIP)) \o KeckSuffix)
         IN  IF a.ok THEN a ELSE Raise("FileNotFoundError")

HiresTryStripped(name, entry, dir) ==
    IF HasChar(name, "A")
    THEN LET a == ReadCsv(dir, Join(AllButLast(Split(name))) \o KeckSuffix)
         IN  IF a.ok THEN a ELSE HiresTryHip(entry, dir)
    ELSE HiresTryHip(entry, dir)

LoadHiresEbpsData(name, entry, dir) ==
    LET a == ReadCsv(dir, Join(Split(name)) \o KeckSuffix)
    IN  IF a.ok THEN a ELSE HiresTryStripped(name, entry, dir)

----------------------------------------------------------------------------
(* stardata.utilities.convert_rhkp_to_sindex, in fixed point.  The two     *)
(* powers of ten depend on the colour index only, so they are tabulated    *)
(* for the colour indices of the model: at B-V = 0.6, 10^log_Rphot is      *)
(* 1.471e-5, and ALPHA * 10^log_Ccf is 1.586e-4 on the main sequence and   *)
(* 1.510e-4 for a subgiant.                                                *)

RphotE7(bv_mag) == CASE bv_mag = 600 -> 147

AlphaCcfE7(bv_mag, subgiant) ==
    CASE bv_mag = 600 -> IF subgiant THEN 1510 ELSE 1586

ConvertRhkpToSindex(rhkp, bv_mag, subgiant) ==
    ((rhkp + RphotE7(bv_mag)) * 1000) \div AlphaCcfE7(bv_mag, subgiant)

----------------------------------------------------------------------------
(* Segment masks of StarData._combine_rvs and StarData._combine_S_indexes *)

HarpsPreMsk(r) == r.BJD <= HARPS_PRE_END * TicksPerDay
HarpsPostMsk(r) == r.BJD >= HARPS_POST_START * TicksPerDay
HiresPreMsk(r) == r.JD <= HIRES_UPGRADE * TicksPerDay
\* a post-upgrade mask that leaves the boundary instant out
HiresPostMsk_Strict(r) == r.JD > HIRES_UPGRADE * TicksPerDay
HiresPostMsk(r) == r.JD >= HIRES_UPGRADE * TicksPerDay

HarpsRvRow(r, tel) ==
    [idx |-> r.idx, jd |-> r.BJD, mnvel |-> r.RV_mlc_nzp,
     errvel |-> r.e_RV_mlc_nzp, tel |-> tel]

HiresRvRow(r, tel) ==
    [idx |-> r.idx, jd |-> r.JD, mnvel |-> r.RVel, errvel |-> r.e_RVel, tel |-> tel]

HarpsSindRow(r, tel, errs, bv_mag, subgiant) ==
    [idx |-> r.idx, jd |-> r.BJD,
     sind |-> ConvertRhkpToSindex(r.RHKp, bv_mag, subgiant),
     errs |-> errs, tel |-> tel]

HiresSindRow(r, tel, errs) ==
    [idx |-> r.idx, jd |-> r.JD, sind |-> r.S_value, errs |-> errs, tel |-> tel]

\* a segment: the masked rows with their columns renamed and the label added
HarpsRvRows(rows, tel) == [k \in 1..Len(rows) |-> HarpsRvRow(rows[k], tel)]
HiresRvRows(rows, tel) == [k \in 1..Len(rows) |-> HiresRvRow(rows[k], tel)]
HarpsSindRows(rows, tel, errs, bv_mag, subgiant) ==
    [k \in 1..Len(rows) |-> HarpsSindRow(rows[k], tel, errs, bv_mag, subgiant)]
HiresSindRows(rows, tel, errs) == [k \in 1..Len(rows) |-> HiresSindRow(rows[k], tel, errs)]

\* the rows pd.concat has collected before "clean, sort, and re-index"
RvConcat(harps, hires) ==
    (IF harps # None
     THEN HarpsRvRows(SelectSeq(harps.rows, HarpsPreMsk), "harps_pre")
          \o HarpsRvRows(SelectSeq(harps.rows, HarpsPostMsk), "harps_post")
     ELSE <<>>)
    \o
    (IF hires # None
     THEN HiresRvRows(SelectSeq(hires.rows, HiresPreMsk), "hires_pre")
          \o HiresRvRows(SelectSeq(hires.rows, HiresPostMsk), "hires_post")
     ELSE <<>>)

SindConcat(harps, hires, bv_mag, subgiant) ==
    (IF harps # None
     THEN HarpsSindRows(SelectSeq(harps.rows, HarpsPreMsk), "harps_pre", ERRS_HARPS_PRE, bv_mag, subgiant)
          \o HarpsSindRows(SelectSeq(harps.rows, HarpsPostMsk), "harps_post", ERRS_HARPS_POST, bv_mag, subgiant)
     ELSE <<>>)
    \o
    (IF hires # None
     THEN HiresSindRows(SelectSeq(hires.rows, HiresPreMsk), "hires_pre", ERRS_HIRES_PRE)
          \o HiresSindRows(SelectSeq(hires.rows, HiresPostMsk), "hires_post", ERRS_HIRES_POST)
     ELSE <<>>)

----------------------------------------------------------------------------
(* Cleaning steps shared by the two combiners *)

\* abs(x - mean) > std * threshold, for the mean and the sample standard
\* deviation (ddof = 1) of vals, compared exactly after squaring:
\*   (n x - S)^2 (n - 1) > threshold^2 n (n Q - S^2),  S = sum, Q = sum of squares.
\* With n = 1 the standard deviation is NaN and no comparison is true.
IsOutlier(x, vals, threshold) ==
    LET n == Len(vals)
        S == SumSeq(vals)
        Q == SumSeq([k \in 1..Len(vals) |-> vals[k] * vals[k]])
    IN  (n * x - S) * (n * x - S) * (n - 1) > threshold * threshold * n * (n * Q - S * S)

\* df.drop(labels): every row whose index label is one of labels goes
DropLabels(rows, labels) == SelectSeq(rows, LAMBDA r : r.idx \notin labels)

\* df.drop(df[abs(df[col] - mean) > threshold].index), vals being df[col]
RejectOutliers(rows, vals, threshold) ==
    DropLabels(rows, {rows[i].idx : i \in {j \in 1..Len(rows) : IsOutlier(vals[j], vals, threshold)}})

\* df.drop(df[df['sind'] < 0].index)
DropNegative(rows) ==
    DropLabels(rows, {rows[i].idx : i \in {j \in 1..Len(rows) : rows[j].sind < 0}})

\* one insertion of the stable insertion sort numpy runs on short arrays
InsertByJd(sorted, r) ==
    LET k == Cardinality({i \in 1..Len(sorted) : sorted[i].jd <= r.jd})
    IN  SubSeq(sorted, 1, k) \o <<r>> \o SubSeq(sorted, k + 1, Len(sorted))

RECURSIVE SortFrom(_, _)
SortFrom(sorted, rest) ==
    IF rest = <<>> THEN sorted ELSE SortFrom(InsertByJd(sorted, Head(rest)), Tail(rest))

\* a combiner that forgets to sort
SortValuesJd_Unsorted(rows) == rows

\* df.sort_values('jd')
SortValuesJd(rows) == SortFrom(<<>>, rows)

\* df.reset_index(drop=True)
ResetIndex(rows) == [i \in 1..Len(rows) |-> [rows[i] EXCEPT !.idx = i - 1]]

(* StarData._combine_rvs *)

CombineRvs(harps, hires, threshold) ==
    LET rv == RvConcat(harps, hires)
        vals == [k \in 1..Len(rv) |-> rv[k].mnvel]
    IN  IF Len(rv) > 0
        THEN Return(DataFrame(ResetIndex(SortValuesJd(RejectOutliers(rv, vals, threshold)))))
        ELSE Raise("ValueError")

(* StarData._combine_S_indexes *)

\* the cleaning with the outliers taken from the statistics of the whole
\* concatenated series, negative rows included, and the negative rows
\* dropped afterwards
CleanSind_StatsFirst(st, threshold) ==
    ResetIndex(SortValuesJd(DropNegative(
        RejectOutliers(st, [k \in 1..Len(st) |-> st[k].sind], threshold))))

CleanSind(st, threshold) ==
    LET kept == DropNegative(st)
        vals == [k \in 1..Len(kept) |-> kept[k].sind]
    IN  ResetIndex(SortValuesJd(RejectOutliers(kept, vals, threshold)))

CombineSIndexes(entry, harps, hires, threshold) ==
    IF IsNaN(entry.SpT) THEN Raise("TypeError")
    ELSE LET st == SindConcat(harps, hires, entry.BV, HasIV(entry.SpT))
         IN  IF Len(st) > 0
             THEN Return(DataFrame(CleanSind(st, threshold)))
             ELSE Raise("ValueError")

----------------------------------------------------------------------------
(* radvel.utils.bintels and timebin, as called by _bin_rvs and _bin_sinds.  *)
(* A point is [t, v, e, tel].  The weights (1/e)^2 are scaled by the        *)
(* product of the distinct e^2 of the window, which leaves the weighted     *)
(* means unchanged; quotients are floored.                                  *)

DEFAULT_BIN_SIZE_HALF_DAYS == 1

RECURSIVE ProdSet(_)
ProdSet(S) == IF S = {} THEN 1 ELSE LET x == CHOOSE y \in S : TRUE IN x * ProdSet(S \ {x})

ISqrt(x) == CHOOSE r \in 0..x : r * r <= x /\ (r + 1) * (r + 1) > x

InsertByT(sorted, p) ==
    LET k == Cardinality({i \in 1..Len(sorted) : sorted[i].t <= p.t})
    IN  SubSeq(sorted, 1, k) \o <<p>> \o SubSeq(sorted, k + 1, Len(sorted))

RECURSIVE SortByT(_, _)
SortByT(sorted, rest) ==
    IF rest = <<>> THEN sorted ELSE SortByT(InsertByT(sorted, Head(rest)), Tail(rest))

\* a window that holds its opening point only
BinWindow_Single(pts, ct, half_days) == {ct}

\* the window timebin opens at position ct of the time-sorted points
BinWindow(pts, ct, half_days) ==
    {i \in 1..Len(pts) : pts[i].t >= pts[ct].t
                         /\ 2 * (pts[i].t - pts[ct].t) < half_days * TicksPerDay}

\* the point timebin emits for the window ind
BinPoint(pts, ind) ==
    LET t0 == pts[CHOOSE i \in ind : \A j \in ind : i <= j].t
        L == ProdSet({pts[i].e * pts[i].e : i \in ind})
        members == SelectSeq(pts, LAMBDA p : \E i \in ind : pts[i] = p)
        w == [k \in 1..Len(members) |-> L \div (members[k].e * members[k].e)]
        W == SumSeq(w)
    IN  [t |-> t0 + SumSeq([i \in 1..Len(members) |-> w[i] * (members[i].t - t0)]) \div W,
         v |-> SumSeq([i \in 1..Len(members) |-> w[i] * members[i].v]) \div W,
         e |-> ISqrt(L \div W),
         tel |-> members[1].tel]

RECURSIVE TimeBinFrom(_, _, _)
TimeBinFrom(pts, ct, half_days) ==
    IF ct > Len(pts) THEN <<>>
    ELSE LET ind == BinWindow(pts, ct, half_days)
         IN  <<BinPoint(pts, ind)>> \o TimeBinFrom(pts, ct + Cardinality(ind), half_days)

TimeBin(pts, half_days) == TimeBinFrom(SortByT(<<>>, pts), 1, half_days)

\* the instrument labels in order of first appearance
RECURSIVE UniqTels(_, _)
UniqTels(pts, seen) ==
    IF pts = <<>> THEN seen
    ELSE UniqTels(Tail(pts),
                  IF \E i \in 1..Len(seen) : seen[i] = Head(pts).tel
                  THEN seen ELSE Append(seen, Head(pts).tel))

RECURSIVE BinEachTel(_, _, _)
BinEachTel(pts, tels, half_days) ==
    IF tels = <<>> THEN <<>>
    ELSE TimeBin(SelectSeq(pts, LAMBDA p : p.tel = Head(tels)), half_days)
         \o BinEachTel(pts, Tail(tels), half_days)

\* bintels without the split by instrument label
BinTels_Merged(pts, half_days) == TimeBin(pts, half_days)

BinTels(pts, half_days) == BinEachTel(pts, UniqTels(pts, <<>>), half_days)

(* StarData._bin_rvs *)
BinRvs(rv, half_days) ==
    LET b == BinTels([k \in 1..Len(rv.rows) |->
                        [t |-> rv.rows[k].jd, v |-> rv.rows[k].mnvel,
                         e |-> rv.rows[k].errvel, tel |-> rv.rows[k].tel]], half_days)
    IN  DataFrame([i \in 1..Len(b) |->
                     [idx |-> i - 1, jd |-> b[i].t, mnvel |-> b[i].v,
                      errvel |-> b[i].e, tel |-> b[i].tel]])

(* StarData._bin_sinds *)
BinSinds(sd, half_days) ==
    LET b == BinTels([k \in 1..Len(sd.rows) |->
                        [t |-> sd.rows[k].jd, v |-> sd.rows[k].sind,
                         e |-> sd.rows[k].errs, tel |-> sd.rows[k].tel]], half_days)
    IN  DataFrame([i \in 1..Len(b) |->
                     [idx |-> i - 1, jd |-> b[i].t, sind |-> b[i].v,
                      errs |-> b[i].e, tel |-> b[i].tel]])

----------------------------------------------------------------------------
(* LSPeriodogram *)

MIN_PER_TENTHS == 31
DELTA_F_DIGITS == 5

MaxOf(S) == CHOOSE x \in S : \A y \in S : y <= x
MinOf(S) == CHOOSE x \in S : \A y \in S : x <= y

\* np.unique(rv['tel'].values): the distinct labels (numpy returns them sorted)
LspTels(rv) ==
    IF rv = None THEN Raise("TypeError")
    ELSE Return({rv.rows[i].tel : i \in 1..Len(rv.rows)})

RECURSIVE ShiftDiv(_, _, _, _)
\* <<floor(10^k a / d), whether a remainder is left>> by long division, 0 <= a < d
ShiftDiv(a, d, k, q) ==
    IF k = 0 THEN <<q, a > 0>>
    ELSE ShiftDiv((10 * a) % d, d, k - 1, 10 * q + (10 * a) \div d)

\* len(np.arange(1/max_per, 1/min_per, delta_f)) with max_per = 1.5 * ptp:
\* ceil((10/31 - 2 T / (3 ptp)) / 1e-5) for ptp in ticks, T ticks a day; 0 if negative
GridLen(ptp) ==
    LET num == 30 * ptp - 2 * MIN_PER_TENTHS * TicksPerDay
        den == 3 * MIN_PER_TENTHS * ptp
        qr == ShiftDiv(num, den, DELTA_F_DIGITS, 0)
    IN  IF num <= 0 THEN 0 ELSE qr[1] + (IF qr[2] THEN 1 ELSE 0)

\* the frequency grid built from the time column of rows (lines 51-52, 62-63):
\* np.ptp of no rows raises; a zero baseline makes 1/max_per infinite and
\* np.arange fails on the infinite start
FreqGrid(rows) ==
    IF rows = <<>> THEN Raise("ValueError")
    ELSE LET jds == {rows[i].jd : i \in 1..Len(rows)}
             ptp == MaxOf(jds) - MinOf(jds)
         IN  IF ptp = 0 THEN Raise("OverflowError")
             ELSE Return([baseline |-> ptp, n |-> GridLen(ptp)])

OfTel(rows, tel) == SelectSeq(rows, LAMBDA r : r.tel = tel)

\* one power array: LombScargle(t, ...).power(f) is computed from the times t
\* of rows, on the grid f, and has one value per frequency of f
Power(kind, rows, f) ==
    [kind |-> kind, t |-> [k \in 1..Len(rows) |-> rows[k].jd], f |-> f, n |-> f.n]

(* LSPeriodogram.compute_lsps *)
ComputeLsps(rv, svals, tels) ==
    IF rv = None THEN Raise("TypeError")
    ELSE LET f == FreqGrid(rv.rows)
         IN  IF ~f.ok THEN f
             ELSE IF svals = None THEN Raise("TypeError")
             ELSE IF \E tel \in tels : ~FreqGrid(OfTel(rv.rows, tel)).ok
             THEN Raise((FreqGrid(OfTel(rv.rows,
                          CHOOSE tel \in tels : ~FreqGrid(OfTel(rv.rows, tel)).ok))).exc)
             ELSE Return([k \in {"all"} \cup tels |->
                    IF k = "all"
                    THEN [frequency |-> f.val,
                          rv_power |-> Power("rv", rv.rows, f.val),
                          sval_power |-> Power("sval", svals.rows, f.val)]
                    ELSE LET ft == FreqGrid(OfTel(rv.rows, k)).val
                         IN  [frequency |-> ft,
                              rv_power |-> Power("rv", OfTel(rv.rows, k), ft),
                              sval_power |-> Power("sval", OfTel(svals.rows, k), ft),
                              windowfn_power |-> Power("window", OfTel(rv.rows, k), ft)]])

----------------------------------------------------------------------------
(* StarData.__init__, one action per call it makes *)

\* except FileNotFoundError (lines 43 and 51)
LoaderExcept(e) == e = "FileNotFoundError"

\* a constructor that lets the ValueError of a combiner through
CombineExcept_Nothing(e) == FALSE

\* except ValueError (line 63)
CombineExcept(e) == e = "ValueError"

\* lines 33-37
InitLoadCatalogEntry ==
    /\ pc = "load_catalog"
    /\ LET r == LoadCatalogEntry(catalog_df, hd_name)
       IN  IF r.ok
           THEN catalog_entry' = r.val /\ pc' = "load_harps" /\ exc' = exc
           ELSE catalog_entry' = catalog_entry /\ pc' = "raised" /\ exc' = r.exc
    /\ UNCHANGED <<hd_name, outlier_threshold, catalog_df, harps_dir, hires_dir,
                   harps_df, hires_df, rv_data, rv_data_bin, sind_data,
                   sind_data_bin, S_index_data, lspVars, drvVars>>

\* lines 39-45
InitLoadHarps ==
    /\ pc = "load_harps"
    /\ LET r == LoadHarpsRvbankData(hd_name, catalog_entry, harps_dir)
       IN  IF r.ok
           THEN harps_df' = r.val /\ pc' = "load_hires" /\ exc' = exc
           ELSE IF LoaderExcept(r.exc)
           THEN harps_df' = None /\ pc' = "load_hires" /\ exc' = exc
           ELSE harps_df' = None /\ pc' = "raised" /\ exc' = r.exc
    /\ UNCHANGED <<hd_name, outlier_threshold, catalog_df, harps_dir, hires_dir,
                   catalog_entry, hires_df, rv_data, rv_data_bin, sind_data,
                   sind_data_bin, S_index_data, lspVars, drvVars>>

\* lines 47-53
InitLoadHires ==
    /\ pc = "load_hires"
    /\ LET r == LoadHiresEbpsData(hd_name, catalog_entry, hires_dir)
       IN  IF r.ok
           THEN hires_df' = r.val /\ pc' = "combine_rvs" /\ exc' = exc
           ELSE IF LoaderExcept(r.exc)
           THEN hires_df' = None /\ pc' = "combine_rvs" /\ exc' = exc
           ELSE hires_df' = None /\ pc' = "raised" /\ exc' = r.exc
    /\ UNCHANGED <<hd_name, outlier_threshold, catalog_df, harps_dir, hires_dir,
                   catalog_entry, harps_df, rv_data, rv_data_bin, sind_data,
                   sind_data_bin, S_index_data, lspVars, drvVars>>

\* lines 55-59, and 63-67 when _combine_rvs raises
InitCombineRvs ==
    /\ pc = "combine_rvs"
    /\ S_index_data' = None
    /\ LET r == CombineRvs(harps_df, hires_df, outlier_threshold)
       IN  IF r.ok
           THEN rv_data' = r.val /\ pc' = "bin_rvs" /\ exc' = exc
           ELSE IF CombineExcept(r.exc)
           THEN rv_data' = None /\ pc' = "returned" /\ exc' = exc
           ELSE rv_data' = None /\ pc' = "raised" /\ exc' = r.exc
    /\ UNCHANGED <<hd_name, outlier_threshold, catalog_df, harps_dir, hires_dir,
                   catalog_entry, harps_df, hires_df, rv_data_bin, sind_data,
                   sind_data_bin, lspVars, drvVars>>

\* line 60
InitBinRvs ==
    /\ pc = "bin_rvs"
    /\ rv_data_bin' = BinRvs(rv_data, DEFAULT_BIN_SIZE_HALF_DAYS)
    /\ pc' = "combine_sinds"
    /\ UNCHANGED <<hd_name, outlier_threshold, catalog_df, harps_dir, hires_dir,
                   catalog_entry, harps_df, hires_df, rv_data, sind_data,
                   sind_data_bin, S_index_data, exc, lspVars, drvVars>>

\* line 61, and 63-67 when _combine_S_indexes raises
InitCombineSIndexes ==
    /\ pc = "combine_sinds"
    /\ LET r == CombineSIndexes(catalog_entry, harps_df, hires_df, outlier_threshold)
       IN  IF r.ok
           THEN sind_data' = r.val /\ pc' = "bin_sinds" /\ exc' = exc
           ELSE IF CombineExcept(r.exc)
           THEN sind_data' = sind_data /\ pc' = "returned" /\ exc' = exc
           ELSE sind_data' = sind_data /\ pc' = "raised" /\ exc' = r.exc
    /\ UNCHANGED <<hd_name, outlier_threshold, catalog_df, harps_dir, hires_dir,
                   catalog_entry, harps_df, hires_df, rv_data, rv_data_bin,
                   sind_data_bin, S_index_data, lspVars, drvVars>>

\* lines 62-67
InitBinSinds ==
    /\ pc = "bin_sinds"
    /\ sind_data_bin' = BinSinds(sind_data, DEFAULT_BIN_SIZE_HALF_DAYS)
    /\ pc' = "returned"
    /\ UNCHANGED <<hd_name, outlier_threshold, catalog_df, harps_dir, hires_dir,
                   catalog_entry, harps_df, hires_df, rv_data, rv_data_bin,
                   sind_data, S_index_data, exc, lspVars, drvVars>>

StarDataInit ==
    \/ InitLoadCatalogEntry
    \/ InitLoadHarps
    \/ InitLoadHires
    \/ InitCombineRvs
    \/ InitBinRvs
    \/ InitCombineSIndexes
    \/ InitBinSinds

----------------------------------------------------------------------------
(* LSPeriodogram on the constructed StarData *)

\* LSPeriodogram.__init__
LspInit ==
    /\ pc = "returned"
    /\ lsp_pc = "none"
    /\ LET r == LspTels(rv_data)
       IN  IF r.ok
           THEN lsp_tels' = r.val /\ lsp_pc' = "init" /\ lsp_exc' = lsp_exc
           ELSE lsp_tels' = lsp_tels /\ lsp_pc' = "raised" /\ lsp_exc' = r.exc
    /\ lsp_dict' = IF LspTels(rv_data).ok THEN None ELSE lsp_dict
    /\ UNCHANGED <<objVars, mthVars, drvVars>>

\* LSPeriodogram.compute_lsps
LspCompute ==
    /\ lsp_pc = "init"
    /\ LET r == ComputeLsps(rv_data, S_index_data, lsp_tels)
       IN  IF r.ok
           THEN lsp_dict' = r.val /\ lsp_pc' = "computed" /\ lsp_exc' = lsp_exc
           ELSE lsp_dict' = lsp_dict /\ lsp_pc' = "raised" /\ lsp_exc' = r.exc
    /\ UNCHANGED <<objVars, lsp_tels, mthVars, drvVars>>

----------------------------------------------------------------------------
(* Inputs: the star, the catalog table and the two archive directories *)

MaxCatalogRows == 2
MaxFiles == 2
MaxHarpsRows == 2
MaxHiresRows == 1

SeqsUpTo(S, n) == UNION {[1..k -> S] : k \in 0..n}

HD_1_A == <<"H", "D", " ", "1", " ", "A">>
HD_2 == <<"H", "D", " ", "2">>
GJ_5 == <<"G", "J", " ", "5">>
HIP_7 == <<"H", "I", "P", " ", "7">>
TYC_1 == <<"1", "-", "1", "-", "1">>
SPT_G5V == <<"G", "5", "V">>
SPT_K1IV == <<"K", "1", "I", "V">>

CatalogRow(hd, gj, hip, tyc, spt) ==
    [HD |-> hd, GJ |-> gj, HIP |-> hip, Tycho2 |-> tyc, BV |-> 600, SpT |-> spt]

\* the catalog rows of the model: the rows a star named hd can have (alternate
\* identifiers present or missing), and one row of another star
CatalogRows(hd) ==
    { CatalogRow(hd, GJ_5, HIP_7, TYC_1, SPT_G5V),
      CatalogRow(hd, NaN, HIP_7, TYC_1, SPT_K1IV),
      CatalogRow(hd, GJ_5, NaN, TYC_1, SPT_G5V),
      CatalogRow(hd, NaN, NaN, NaN, NaN),
      CatalogRow(IF hd = HD_2 THEN HD_1_A ELSE HD_2, GJ_5, HIP_7, TYC_1, SPT_G5V) }

\* the file stems an archive may hold for a star named hd, in alias order
Stems(hd) ==
    << Join(Split(hd)), Join(AllButLast(Split(hd))), Join(Split(GJ_5)),
       Join(Split(HIP_7)), TycPrefix \o TYC_1 >>

HarpsRow(i, bjd, rv, rhkp) ==
    [idx |-> i, BJD |-> bjd, RV_mlc_nzp |-> rv, e_RV_mlc_nzp |-> 1, RHKp |-> rhkp]

HiresRow(i, jd, rv, s) ==
    [idx |-> i, JD |-> jd, RVel |-> rv, e_RVel |-> 2, S_value |-> s]

\* in the loader inputs every file holds one row, whose velocity tells the
\* files apart; the HIRES file under the HIP name holds a negative S-index
HarpsFiles(hd) ==
    { [name |-> Stems(hd)[k] \o CsvSuffix,
       rows |-> <<HarpsRow(0, HARPS_PRE_END * TicksPerDay, k, 300)>>] : k \in 1..5 }

HiresFiles(hd) ==
    { [name |-> Stems(hd)[k] \o KeckSuffix,
       rows |-> <<HiresRow(0, HIRES_UPGRADE * TicksPerDay + 1, k,
                           IF k = 4 THEN -1000 ELSE 200)>>] : k \in 1..5 }

SubsetsUpTo(S, n) == {T \in SUBSET S : Cardinality(T) <= n}

\* raw measurements: a time around the segment boundaries, and a (velocity, activity) pair
HarpsTimes ==
    { HARPS_PRE_END * TicksPerDay - 3 * TicksPerDay, HARPS_PRE_END * TicksPerDay,
      HARPS_PRE_END * TicksPerDay + 1, HARPS_POST_START * TicksPerDay }
HiresTimes ==
    { HIRES_UPGRADE * TicksPerDay - 1, HIRES_UPGRADE * TicksPerDay, HIRES_UPGRADE * TicksPerDay + 1 }
HarpsValues == { <<0, 300>>, <<10, -500>> }
HiresValues == { <<0, 200>>, <<10, -1000>> }

HarpsTables ==
    { [i \in 1..Len(q) |-> HarpsRow(i - 1, q[i][1], q[i][2][1], q[i][2][2])] :
        q \in SeqsUpTo(HarpsTimes \X HarpsValues, MaxHarpsRows) }

HiresTables ==
    { [i \in 1..Len(q) |-> HiresRow(i - 1, q[i][1], q[i][2][1], q[i][2][2])] :
        q \in SeqsUpTo(HiresTimes \X HiresValues, MaxHiresRows) }

\* no call of compute_fap_thresh or get_periods_from_posterior
\* output_dir/RV_search/post_final.pkl: absent, or a pickled posterior whose
\* params are a sequence of [name, value]
NoFile == [exists |-> FALSE]
PklFile(params) == [exists |-> TRUE, params |-> params]

Methods == {"_combine_rvs", "_combine_S_indexes", "_bin_rvs", "_bin_sinds"}

NoCalls == [m \in Methods |-> <<>>]

MthOff ==
    /\ fap_power = <<>> /\ fap_ret = Unset /\ post_pkl = NoFile /\ periods_ret = Unset
    /\ call_hist = NoCalls

ObjInit ==
    /\ catalog_entry = Unset /\ harps_df = Unset /\ hires_df = Unset
    /\ rv_data = Unset /\ rv_data_bin = Unset
    /\ sind_data = Unset /\ sind_data_bin = Unset /\ S_index_data = Unset
    /\ pc = "load_catalog" /\ exc = "none"
    /\ lsp_pc = "none" /\ lsp_tels = Unset /\ lsp_dict = Unset /\ lsp_exc = "none"
    /\ MthOff

\* catalog inputs: any small catalog table, no archive file
InitCatalog ==
    /\ hd_name \in {HD_1_A, HD_2}
    /\ outlier_threshold = DEFAULT_OUTLIER_THRESHOLD
    /\ catalog_df \in SeqsUpTo(CatalogRows(hd_name), MaxCatalogRows)
    /\ harps_dir = {}
    /\ hires_dir = {}

\* loader inputs: one catalog row of the star, any few archive files
InitArchives ==
    /\ hd_name \in {HD_1_A, HD_2}
    /\ outlier_threshold = DEFAULT_OUTLIER_THRESHOLD
    /\ catalog_df \in {<<r>> : r \in {x \in CatalogRows(hd_name) : x.HD = hd_name}}
    /\ harps_dir \in SubsetsUpTo(HarpsFiles(hd_name), MaxFiles)
    /\ hires_dir \in SubsetsUpTo(HiresFiles(hd_name), MaxFiles)

\* harmonizer inputs: one catalogued star, any small raw tables, and a
\* threshold of one standard deviation, which a table this small can exceed
InitData ==
    /\ hd_name = HD_2
    /\ outlier_threshold = 1
    /\ catalog_df = <<CatalogRow(HD_2, GJ_5, HIP_7, TYC_1, SPT_G5V)>>
    /\ harps_dir \in {{}} \cup {{[name |-> Join(Split(HD_2)) \o CsvSuffix, rows |-> t]} : t \in HarpsTables}
    /\ hires_dir \in {{}} \cup {{[name |-> Join(Split(HD_2)) \o KeckSuffix, rows |-> t]} : t \in HiresTables}

Unbound == [kind |-> "unbound"]
Console == [kind |-> "console"]
LogFile(star) == [kind |-> "file", star |-> star]

\* no driver: the StarData is constructed by a direct call
DrvOff ==
    /\ target_list = <<>> /\ inj_rec = FALSE /\ sind = FALSE
    /\ star_i = 0 /\ drv_pc = "off" /\ data = Unbound /\ rv_search_obj = Unbound
    /\ sys_stdout = Console /\ log = <<>> /\ drv_exc = "none"

Init == ObjInit /\ DrvOff /\ (InitCatalog \/ InitArchives \/ InitData)

Next == StarDataInit \/ LspInit \/ LspCompute

vars == <<objVars, lspVars, drvVars>>

Spec == Init /\ [][Next]_vars

----------------------------------------------------------------------------
(* Driver.do_everything: the loop over target_list, one action per stage *)

MIN_RVS == 25

\* what the iteration prints to sys.stdout, which is the star's log file
LogPrint(line) == [log EXCEPT ![star_i] = Append(@, line)]

\* the local name `data` once StarData(star) has returned
StarDataObj ==
    [kind |-> "StarData", hd_name |-> hd_name, catalog_entry |-> catalog_entry,
     rv_data |-> rv_data, S_index_data |-> S_index_data]

\* lines 49-62: next star of the list, its log opened and made sys.stdout,
\* and the call StarData(star) entered
DrvStartStar ==
    /\ drv_pc = "loop"
    /\ star_i < Len(target_list)
    /\ star_i' = star_i + 1
    /\ sys_stdout' = LogFile(target_list[star_i + 1])
    /\ log' = Append(log, <<"Loading data...">>)
    /\ hd_name' = target_list[star_i + 1]
    /\ catalog_entry' = Unset /\ harps_df' = Unset /\ hires_df' = Unset
    /\ rv_data' = Unset /\ rv_data_bin' = Unset
    /\ sind_data' = Unset /\ sind_data_bin' = Unset /\ S_index_data' = Unset
    /\ pc' = "load_catalog" /\ exc' = "none"
    /\ lsp_pc' = "none" /\ lsp_tels' = Unset /\ lsp_dict' = Unset /\ lsp_exc' = "none"
    /\ drv_pc' = "construct"
    /\ UNCHANGED <<outlier_threshold, catalog_df, harps_dir, hires_dir, mthVars,
                   target_list, inj_rec, sind, data, rv_search_obj, drv_exc>>

\* lines 63-72: the constructor has ended; `data` is bound only if it returned,
\* then the two to_csv calls; any exception is printed and the loop body goes on
DrvLoaded ==
    /\ drv_pc = "construct"
    /\ pc \in {"returned", "raised"}
    /\ IF pc = "raised"
       THEN data' = data /\ log' = LogPrint("Exception occurred!")
       ELSE /\ data' = StarDataObj
            /\ log' = IF rv_data = None \/ S_index_data = None
                      THEN LogPrint("Exception occurred!")
                      ELSE log
    /\ drv_pc' = "check"
    /\ UNCHANGED <<objVars, lspVars, target_list, inj_rec, sind, star_i,
                   rv_search_obj, sys_stdout, drv_exc>>

\* lines 74-78: len(data.rv_data) < 25, evaluated outside every try: an unbound
\* `data` or an rv_data of None ends do_everything with the exception
DrvCheckCount ==
    /\ drv_pc = "check"
    /\ IF data = Unbound
       THEN drv_pc' = "aborted" /\ drv_exc' = "NameError"
            /\ UNCHANGED <<log, sys_stdout>>
       ELSE IF data.rv_data = None
       THEN drv_pc' = "aborted" /\ drv_exc' = "TypeError"
            /\ UNCHANGED <<log, sys_stdout>>
       ELSE IF Len(data.rv_data.rows) < MIN_RVS
       THEN /\ log' = LogPrint("NUMBER OF RVS < 25. SKIPPING TO NEXT TARGET.")
            /\ sys_stdout' = Console
            /\ drv_pc' = "loop" /\ drv_exc' = drv_exc
       ELSE drv_pc' = "search_rvs" /\ UNCHANGED <<log, sys_stdout, drv_exc>>
    /\ UNCHANGED <<objVars, lspVars, target_list, inj_rec, sind, star_i, data,
                   rv_search_obj>>

\* lines 80-96: search_rvs(data, ...) returns a Search object or raises
DrvSearchRvs ==
    /\ drv_pc = "search_rvs"
    /\ \E ok \in BOOLEAN :
         IF ok
         THEN /\ rv_search_obj' = [kind |-> "Search", starname |-> data.hd_name]
              /\ log' = LogPrint("Searching RVs...")
         ELSE /\ rv_search_obj' = rv_search_obj
              /\ log' = [log EXCEPT ![star_i] = @ \o <<"Searching RVs...", "Exception occurred!">>]
    /\ drv_pc' = "injrec"
    /\ UNCHANGED <<objVars, lspVars, target_list, inj_rec, sind, star_i, data,
                   sys_stdout, drv_exc>>

\* lines 98-116: run_injrec(searches=rv_search_obj, ...) when inj_rec is set;
\* an unbound rv_search_obj is a NameError inside the try
DrvInjRec ==
    /\ drv_pc = "injrec"
    /\ IF ~inj_rec THEN log' = log
       ELSE IF rv_search_obj = Unbound
       THEN log' = [log EXCEPT ![star_i] = @ \o <<"Running injections...", "Exception occurred!">>]
       ELSE \E ok \in BOOLEAN :
              log' = [log EXCEPT ![star_i] =
                        @ \o (IF ok THEN <<"Running injections...">>
                              ELSE <<"Running injections...", "Exception occurred!">>)]
    /\ drv_pc' = "search_sinds"
    /\ UNCHANGED <<objVars, lspVars, target_list, inj_rec, sind, star_i, data,
                   rv_search_obj, sys_stdout, drv_exc>>

\* lines 118-135: search_sinds(data, ...) when sind is set; it starts with
\* data.S_index_data.copy() (search.py line 96)
DrvSearchSinds ==
    /\ drv_pc = "search_sinds"
    /\ IF ~sind THEN log' = log
       ELSE IF data.S_index_data = None
       THEN log' = [log EXCEPT ![star_i] = @ \o <<"Searching S values...", "Exception occurred!">>]
       ELSE \E ok \in BOOLEAN :
              log' = [log EXCEPT ![star_i] =
                        @ \o (IF ok THEN <<"Searching S values...">>
                              ELSE <<"Searching S values...", "Exception occurred!">>)]
    /\ drv_pc' = "periodograms"
    /\ UNCHANGED <<objVars, lspVars, target_list, inj_rec, sind, star_i, data,
                   rv_search_obj, sys_stdout, drv_exc>>

\* lines 137-144: LSPeriodogram(data, out_subdir) and plot_lsps(), whose first
\* statement is compute_lsps(); the rest of the plot draws what it returned
DrvPeriodograms ==
    /\ drv_pc = "periodograms"
    /\ LET t == LspTels(data.rv_data)
           r == ComputeLsps(data.rv_data, data.S_index_data, t.val)
       IN  /\ lsp_tels' = t.val
           /\ IF r.ok
              THEN /\ lsp_dict' = r.val /\ lsp_pc' = "computed" /\ lsp_exc' = lsp_exc
                   /\ log' = LogPrint("Computing LS periodograms...")
              ELSE /\ lsp_dict' = None /\ lsp_pc' = "raised" /\ lsp_exc' = r.exc
                   /\ log' = [log EXCEPT ![star_i] =
                                @ \o <<"Computing LS periodograms...", "Exception occurred!">>]
    /\ drv_pc' = "done"
    /\ UNCHANGED <<objVars, mthVars, target_list, inj_rec, sind, star_i, data,
                   rv_search_obj, sys_stdout, drv_exc>>

\* lines 146-148
DrvDone ==
    /\ drv_pc = "done"
    /\ log' = LogPrint("DONE.")
    /\ sys_stdout' = Console
    /\ drv_pc' = "loop"
    /\ UNCHANGED <<objVars, lspVars, target_list, inj_rec, sind, star_i, data,
                   rv_search_obj, drv_exc>>

\* the for loop is exhausted and do_everything returns
DrvReturn ==
    /\ drv_pc = "loop"
    /\ star_i = Len(target_list)
    /\ drv_pc' = "returned"
    /\ UNCHANGED <<objVars, lspVars, target_list, inj_rec, sind, star_i, data,
                   rv_search_obj, sys_stdout, log, drv_exc>>

(* Inputs of do_everything: a catalog and two archive directories shared by
   the run, a target list and the two stage flags *)

MaxTargets == 2

HD_3 == <<"H", "D", " ", "3">>
HD_4 == <<"H", "D", " ", "4">>

\* HD 1 A, HD 2 and HD 4 are catalogued; HD 3 is not
DrvCatalog ==
    << CatalogRow(HD_1_A, GJ_5, HIP_7, TYC_1, SPT_G5V),
       CatalogRow(HD_2, GJ_5, HIP_7, TYC_1, SPT_K1IV),
       CatalogRow(HD_4, GJ_5, HIP_7, TYC_1, SPT_G5V) >>

\* HD 1 A has a HARPS file of MIN_RVS rows, three days apart
DrvHarpsDir ==
    { [name |-> Join(Split(HD_1_A)) \o CsvSuffix,
       rows |-> [i \in 1..MIN_RVS |->
                   HarpsRow(i - 1, (HARPS_PRE_END - 3 * (MIN_RVS - i)) * TicksPerDay, i % 2, 300)]] }

\* HD 2 has a HIRES file of two rows; HD 4 has no file in either archive
DrvHiresDir ==
    { [name |-> Join(Split(HD_2)) \o KeckSuffix,
       rows |-> << HiresRow(0, HIRES_UPGRADE * TicksPerDay - 1, 0, 200),
                   HiresRow(1, HIRES_UPGRADE * TicksPerDay + 1, 1, 200) >>] }

InitDriver ==
    /\ hd_name = <<>> /\ outlier_threshold = DEFAULT_OUTLIER_THRESHOLD
    /\ catalog_df = DrvCatalog /\ harps_dir = DrvHarpsDir /\ hires_dir = DrvHiresDir
    /\ catalog_entry = Unset /\ harps_df = Unset /\ hires_df = Unset
    /\ rv_data = Unset /\ rv_data_bin = Unset
    /\ sind_data = Unset /\ sind_data_bin = Unset /\ S_index_data = Unset
    /\ pc = "idle" /\ exc = "none"
    /\ lsp_pc = "none" /\ lsp_tels = Unset /\ lsp_dict = Unset /\ lsp_exc = "none"
    /\ MthOff
    /\ target_list \in SeqsUpTo({HD_1_A, HD_2, HD_3, HD_4}, MaxTargets)
    /\ inj_rec \in BOOLEAN /\ sind \in BOOLEAN
    /\ star_i = 0 /\ drv_pc = "loop" /\ data = Unbound /\ rv_search_obj = Unbound
    /\ sys_stdout = Console /\ log = <<>> /\ drv_exc = "none"

NextDriver ==
    \/ DrvStartStar
    \/ StarDataInit
    \/ DrvLoaded
    \/ DrvCheckCount
    \/ DrvSearchRvs
    \/ DrvInjRec
    \/ DrvSearchSinds
    \/ DrvPeriodograms
    \/ DrvDone
    \/ DrvReturn

SpecDriver == InitDriver /\ [][NextDriver]_vars

----------------------------------------------------------------------------
(* LSPeriodogram.compute_fap_thresh.  Powers are whole numbers of some small *)
(* unit.  The fitted slope a is the slope of log10(hist) against the bin     *)
(* centers over the bins with a count; with m such bins at indices i the     *)
(* sign of a is the sign of  sum (m i - sum i) log10(hist[i]),  decided      *)
(* exactly by comparing two products of powers of the counts.                *)

CROP_LO_PCT == 50
CROP_HI_PCT == 95
HIST_BINS == 10

InsertVal(sorted, x) ==
    LET k == Cardinality({i \in 1..Len(sorted) : sorted[i] <= x})
    IN  SubSeq(sorted, 1, k) \o <<x>> \o SubSeq(sorted, k + 1, Len(sorted))

RECURSIVE SortVals(_, _)
\* np.sort(power)
SortVals(sorted, rest) ==
    IF rest = <<>> THEN sorted ELSE SortVals(InsertVal(sorted, Head(rest)), Tail(rest))

\* power_sorted[int(0.5 * n) : int(0.95 * n)]
PowerCrop(power_sorted) ==
    SubSeq(power_sorted, (CROP_LO_PCT * Len(power_sorted)) \div 100 + 1,
                         (CROP_HI_PCT * Len(power_sorted)) \div 100)

\* np.histogram(d, bins=10) for d >= 0 with minimum 0: ten equal bins over
\* [0, max d], the maximum in the last one; when max d = 0 numpy widens the
\* range to [-0.5, 0.5] and every value falls in the bin that starts at 0
HistBin(v, dmax) ==
    IF dmax = 0 THEN HIST_BINS \div 2
    ELSE IF v = dmax THEN HIST_BINS - 1
    ELSE (HIST_BINS * v) \div dmax

Hist(d) ==
    LET dmax == d[Len(d)]
    IN  [i \in 0..(HIST_BINS - 1) |-> Cardinality({k \in 1..Len(d) : HistBin(d[k], dmax) = i})]

RECURSIVE IPow(_, _)
IPow(b, e) == IF e = 0 THEN 1 ELSE b * IPow(b, e - 1)

RECURSIVE ProdPow(_, _, _, _)
\* product over the bins i of I with sgn * w[i] > 0 of hist[i] ^ |w[i]|
ProdPow(hist, w, I, sgn) ==
    IF I = {} THEN 1
    ELSE LET i == CHOOSE j \in I : TRUE
         IN  (IF sgn * w[i] > 0 THEN IPow(hist[i], sgn * w[i]) ELSE 1)
             * ProdPow(hist, w, I \ {i}, sgn)

\* the signs np.polyfit(centers[finite], loghist[finite], 1) can give to a.
\* One finite bin: the least-squares problem is underdetermined, polyfit warns
\* and returns the minimum-norm solution a = y / (2 c), c > 0 the center.
\* Several bins with equal counts above 1: a is zero up to rounding.
SlopeSigns(hist) ==
    LET I == {i \in DOMAIN hist : hist[i] > 0}
        m == Cardinality(I)
        w == [i \in I |-> m * i - SumSeq([k \in 1..HIST_BINS |-> IF (k - 1) \in I THEN k - 1 ELSE 0])]
        P == ProdPow(hist, w, I, 1)
        Q == ProdPow(hist, w, I, -1)
    IN  IF m = 1 THEN (IF \E i \in I : hist[i] > 1 THEN {1} ELSE {0})
        ELSE IF P > Q THEN {1}
        ELSE IF P < Q THEN {-1}
        ELSE IF \A i \in I : hist[i] = 1 THEN {0}
        ELSE {-1, 0, 1}

\* the sign of power_thresh(fap / 10) - power_thresh(fap): with
\* power_thresh = log10(fap / n) / a + power_med the difference is -1 / a, and
\* for a = 0 both thresholds are the same infinity
ThreshStep(a_sign) == 0 - a_sign

(* compute_fap_thresh(power, fap), for the sign a_sign of the fitted slope *)
ComputeFapThresh(power, a_sign) ==
    LET power_sorted == SortVals(<<>>, power)
        power_crop == PowerCrop(power_sorted)
    IN  IF power_crop = <<>> THEN Raise("IndexError")
        ELSE LET power_med == power_crop[1]
                 hist == Hist([k \in 1..Len(power_crop) |-> power_crop[k] - power_med])
             IN  Return([power_med |-> power_med,
                         hist |-> hist,
                         a_sign |-> a_sign,
                         thresh_step |-> ThreshStep(a_sign)])

\* compute_fap_thresh(power, fap) called on one power array for the FAP
\* levels 0.01, 0.001, 0.0001
FapThresh ==
    /\ fap_ret = Unset
    /\ LET crop == PowerCrop(SortVals(<<>>, fap_power))
       IN  IF crop = <<>>
           THEN fap_ret' = ComputeFapThresh(fap_power, 0)
           ELSE \E s \in SlopeSigns(Hist([k \in 1..Len(crop) |-> crop[k] - crop[1]])) :
                    fap_ret' = ComputeFapThresh(fap_power, s)
    /\ UNCHANGED <<objVars, lsp_pc, lsp_tels, lsp_dict, lsp_exc, fap_power, post_pkl,
                   periods_ret, call_hist, drvVars>>

MaxPowerLen == 7
MaxPower == 2

\* no StarData, no LSPeriodogram call, no driver
NoObject ==
    /\ hd_name = <<>> /\ outlier_threshold = DEFAULT_OUTLIER_THRESHOLD
    /\ catalog_df = <<>> /\ harps_dir = {} /\ hires_dir = {}
    /\ catalog_entry = Unset /\ harps_df = Unset /\ hires_df = Unset
    /\ rv_data = Unset /\ rv_data_bin = Unset
    /\ sind_data = Unset /\ sind_data_bin = Unset /\ S_index_data = Unset
    /\ pc = "idle" /\ exc = "none"
    /\ lsp_pc = "none" /\ lsp_tels = Unset /\ lsp_dict = Unset /\ lsp_exc = "none"
    /\ DrvOff

InitFap ==
    /\ NoObject
    /\ fap_power \in SeqsUpTo(0..MaxPower, MaxPowerLen)
    /\ fap_ret = Unset /\ post_pkl = NoFile /\ periods_ret = Unset
    /\ call_hist = NoCalls

NextFap == FapThresh

SpecFap == InitFap /\ [][NextFap]_vars

(* LSPeriodogram.get_periods_from_posterior *)

List(items) == [kind |-> "list", items |-> items]

\* param contains prefix somewhere
StartsWith_Anywhere(param, prefix) ==
    \E k \in 0..(Len(param) - Len(prefix)) : SubSeq(param, k + 1, k + Len(prefix)) = prefix

\* param.startswith(prefix)
StartsWith(param, prefix) ==
    /\ Len(param) >= Len(prefix)
    /\ SubSeq(param, 1, Len(prefix)) = prefix

RECURSIVE PeriodsOf(_)
\* the loop over post.list_params()
PeriodsOf(params) ==
    IF params = <<>> THEN <<>>
    ELSE (IF StartsWith(Head(params).name, <<"p", "e", "r">>) THEN <<Head(params).value>> ELSE <<>>)
         \o PeriodsOf(Tail(params))

GetPeriodsFromPosterior(pkl) ==
    IF ~pkl.exists
    THEN Return(None)                      \* except FileNotFoundError
    ELSE LET periods == PeriodsOf(pkl.params)
         IN  IF Len(periods) > 0 THEN Return(List(periods)) ELSE Return(None)

GetPeriods ==
    /\ periods_ret = Unset
    /\ periods_ret' = GetPeriodsFromPosterior(post_pkl)
    /\ UNCHANGED <<objVars, lsp_pc, lsp_tels, lsp_dict, lsp_exc, fap_power, fap_ret,
                   post_pkl, call_hist, drvVars>>

MaxParams == 3

PER1 == <<"p", "e", "r", "1">>
PER2 == <<"p", "e", "r", "2">>
LOGPER1 == <<"l", "o", "g", "p", "e", "r", "1">>
K1 == <<"k", "1">>
PE == <<"p", "e">>

ParamNames == {PER1, PER2, LOGPER1, K1, PE}
ParamValues == {10, 365}

Posteriors ==
    { q \in SeqsUpTo([name : ParamNames, value : ParamValues], MaxParams) :
        \A i, j \in 1..Len(q) : q[i].name = q[j].name => i = j }

InitPosterior ==
    /\ NoObject
    /\ fap_power = <<>> /\ fap_ret = Unset /\ call_hist = NoCalls
    /\ post_pkl \in {NoFile} \cup {PklFile(q) : q \in Posteriors}
    /\ periods_ret = Unset

NextPosterior == GetPeriods

SpecPosterior == InitPosterior /\ [][NextPosterior]_vars

----------------------------------------------------------------------------
(* The methods of a built StarData, called again by its user.  A method     *)
(* that returns leaves its value in call_hist; none of the four assigns an  *)
(* attribute of the object (the constructor does, with what they return).   *)

MaxCalls == 2

Called(m, r) ==
    /\ pc = "returned"
    /\ Len(call_hist[m]) < MaxCalls
    /\ call_hist' = [call_hist EXCEPT ![m] = Append(@, r)]
    /\ UNCHANGED <<lsp_pc, lsp_tels, lsp_dict, lsp_exc, fap_power, fap_ret, post_pkl,
                   periods_ret, drvVars>>

\* data._combine_rvs() consuming the loaded HARPS table
CallCombineRvs_Consuming ==
    /\ Called("_combine_rvs", CombineRvs(harps_df, hires_df, outlier_threshold))
    /\ harps_df' = None
    /\ UNCHANGED <<hd_name, outlier_threshold, catalog_df, harps_dir, hires_dir,
                   catalog_entry, hires_df, rv_data, rv_data_bin,
                   sind_data, sind_data_bin, S_index_data, pc, exc>>

\* data._combine_rvs()
CallCombineRvs ==
    /\ Called("_combine_rvs", CombineRvs(harps_df, hires_df, outlier_threshold))
    /\ UNCHANGED objVars

\* data._combine_S_indexes()
CallCombineSIndexes ==
    /\ Called("_combine_S_indexes",
              CombineSIndexes(catalog_entry, harps_df, hires_df, outlier_threshold))
    /\ UNCHANGED objVars

\* data._bin_rvs() binning self.rv_data in place of returning a new frame
CallBinRvs_InPlace ==
    /\ rv_data.kind = "DataFrame"
    /\ Called("_bin_rvs", Return(BinRvs(rv_data, DEFAULT_BIN_SIZE_HALF_DAYS)))
    /\ rv_data' = BinRvs(rv_data, DEFAULT_BIN_SIZE_HALF_DAYS)
    /\ UNCHANGED <<hd_name, outlier_threshold, catalog_df, harps_dir, hires_dir,
                   catalog_entry, harps_df, hires_df, rv_data_bin,
                   sind_data, sind_data_bin, S_index_data, pc, exc>>

\* data._bin_rvs(); self.rv_data is None when _combine_rvs found no row
CallBinRvs ==
    /\ Called("_bin_rvs", IF rv_data.kind = "DataFrame"
                          THEN Return(BinRvs(rv_data, DEFAULT_BIN_SIZE_HALF_DAYS))
                          ELSE Raise("TypeError"))
    /\ UNCHANGED objVars

\* data._bin_sinds()
CallBinSinds ==
    /\ Called("_bin_sinds", IF sind_data.kind = "DataFrame"
                            THEN Return(BinSinds(sind_data, DEFAULT_BIN_SIZE_HALF_DAYS))
                            ELSE Raise("TypeError"))
    /\ UNCHANGED objVars

\* binning inputs: up to MaxBinRows HARPS rows in time order, a tenth of a day
\* apart or more over one tenth more than the bin size, and a HIRES row or
\* none among them
MaxBinRows == 5
BinSpanTicks == (DEFAULT_BIN_SIZE_HALF_DAYS * TicksPerDay) \div 2 + 1

BinHarpsTables ==
    { [i \in 1..Len(q) |-> HarpsRow(i - 1, HARPS_PRE_END * TicksPerDay - BinSpanTicks + q[i], i, 300)] :
        q \in {s \in SeqsUpTo(0..BinSpanTicks, MaxBinRows) :
                 \A i \in 1..(Len(s) - 1) : s[i] <= s[i + 1]} }

BinHiresTables ==
    { <<HiresRow(0, HARPS_PRE_END * TicksPerDay - BinSpanTicks + 2, 7, 200)>> }

InitBin ==
    /\ hd_name = HD_2 /\ outlier_threshold = DEFAULT_OUTLIER_THRESHOLD
    /\ catalog_df = <<CatalogRow(HD_2, GJ_5, HIP_7, TYC_1, SPT_G5V)>>
    /\ catalog_entry = catalog_df[1]
    /\ harps_dir = {} /\ hires_dir = {}
    /\ harps_df \in {DataFrame(t) : t \in BinHarpsTables}
    /\ hires_df \in {None} \cup {DataFrame(t) : t \in BinHiresTables}
    /\ rv_data = Unset /\ rv_data_bin = Unset
    /\ sind_data = Unset /\ sind_data_bin = Unset /\ S_index_data = Unset
    /\ pc = "combine_rvs" /\ exc = "none"
    /\ lsp_pc = "none" /\ lsp_tels = Unset /\ lsp_dict = Unset /\ lsp_exc = "none"
    /\ MthOff
    /\ DrvOff

NextBin ==
    \/ InitCombineRvs
    \/ InitBinRvs
    \/ InitCombineSIndexes
    \/ InitBinSinds
    \/ CallBinRvs
    \/ CallBinSinds

SpecBin == InitBin /\ [][NextBin]_vars

\* harmonizer inputs as for Spec, and the two combiners called again
NextCalls == StarDataInit \/ CallCombineRvs \/ CallCombineSIndexes

SpecCalls == Init /\ [][NextCalls]_vars

----------------------------------------------------------------------------
(* compute_lsps as a function of the two series it reads: a StarData whose
   attribute S_index_data holds its harmonized activity series *)
InitLsp ==
    /\ hd_name = HD_2 /\ outlier_threshold = 1
    /\ catalog_df = <<CatalogRow(HD_2, GJ_5, HIP_7, TYC_1, SPT_G5V)>>
    /\ catalog_entry = catalog_df[1]
    /\ harps_dir = {} /\ hires_dir = {}
    /\ harps_df \in {None} \cup {DataFrame(t) : t \in HarpsTables}
    /\ hires_df \in {None} \cup {DataFrame(t) : t \in HiresTables}
    /\ CombineRvs(harps_df, hires_df, outlier_threshold).ok
    /\ rv_data = CombineRvs(harps_df, hires_df, outlier_threshold).val
    /\ rv_data_bin = BinRvs(rv_data, DEFAULT_BIN_SIZE_HALF_DAYS)
    /\ sind_data = CombineSIndexes(catalog_entry, harps_df, hires_df, outlier_threshold).val
    /\ sind_data_bin = BinSinds(sind_data, DEFAULT_BIN_SIZE_HALF_DAYS)
    /\ S_index_data = sind_data
    /\ pc = "returned" /\ exc = "none"
    /\ lsp_pc = "none" /\ lsp_tels = Unset /\ lsp_dict = Unset /\ lsp_exc = "none"
    /\ MthOff
    /\ DrvOff

NextLsp == LspInit \/ LspCompute

SpecLsp == InitLsp /\ [][NextLsp]_vars

----------------------------------------------------------------------------
(* Claims on StarData *)

C1_Matches == {i \in 1..Len(catalog_df) : catalog_df[i].HD = hd_name}
C1_Looked == pc \notin {"idle", "load_catalog"}
C1_Failed == catalog_entry = Unset /\ pc = "raised" /\ exc = "ValueError"

C2_RvKeys(rows) ==
    [i \in 1..Len(rows) |-> [jd |-> rows[i].jd, val |-> rows[i].mnvel, tel |-> rows[i].tel]]
C2_SindKeys(rows) ==
    [i \in 1..Len(rows) |-> [jd |-> rows[i].jd, val |-> rows[i].sind, tel |-> rows[i].tel]]

C2_Count(keys, k) == Cardinality({i \in 1..Len(keys) : keys[i] = k})

\* out holds exactly the rows of concat that are no outliers, each as often
C2_KeptExactly(out, concat, threshold) ==
    LET vals == [i \in 1..Len(concat) |-> concat[i].val]
        expected == SelectSeq(concat, LAMBDA r : ~IsOutlier(r.val, vals, threshold))
    IN  \A k \in {concat[i] : i \in 1..Len(concat)} \cup {out[i] : i \in 1..Len(out)} :
            C2_Count(out, k) = C2_Count(expected, k)

\* the concatenated activity series that enters outlier rejection: the rows
\* of every segment whose S-index is not negative
C2_SindConcat ==
    SelectSeq(SindConcat(harps_df, hires_df, catalog_entry.BV, HasIV(catalog_entry.SpT)),
              LAMBDA r : r.sind >= 0)

\* C2: a combined series returned by _combine_rvs or _combine_S_indexes holds
\* exactly the rows of the concatenated series whose value is within
\* outlier_threshold sample standard deviations of the mean of the whole
\* concatenated series: the outliers are gone and every other row is kept.
C2_ExactOutlierRejection ==
    /\ rv_data.kind = "DataFrame" =>
         C2_KeptExactly(C2_RvKeys(rv_data.rows), C2_RvKeys(RvConcat(harps_df, hires_df)),
                        outlier_threshold)
    /\ sind_data.kind = "DataFrame" =>
         C2_KeptExactly(C2_SindKeys(sind_data.rows), C2_SindKeys(C2_SindConcat),
                        outlier_threshold)

C3_SortedDense(df) ==
    df.kind = "DataFrame" =>
        \A i \in 1..Len(df.rows) :
            /\ df.rows[i].idx = i - 1
            /\ i < Len(df.rows) => df.rows[i].jd <= df.rows[i + 1].jd

\* C3: every series returned by _combine_rvs or _combine_S_indexes has its
\* time column in non-decreasing order and the row index 0..n-1.
C3_SortedAndDense == C3_SortedDense(rv_data) /\ C3_SortedDense(sind_data)

\* the concatenation was out of order, a row was rejected, two times are left
C3_Witness ==
    /\ rv_data.kind = "DataFrame"
    /\ Len(rv_data.rows) >= 2
    /\ Len(rv_data.rows) < Len(RvConcat(harps_df, hires_df))
    /\ RvConcat(harps_df, hires_df)[1].jd > rv_data.rows[1].jd
    /\ rv_data.rows[1].jd < rv_data.rows[Len(rv_data.rows)].jd
    /\ sind_data.kind = "DataFrame"
    /\ Len(sind_data.rows) >= 2

C4_Labels == {"harps_pre", "harps_post", "hires_pre", "hires_post"}

C4_HarpsSegments(t) ==
    (IF t <= HARPS_PRE_END * TicksPerDay THEN {"harps_pre"} ELSE {})
    \cup (IF t >= HARPS_POST_START * TicksPerDay THEN {"harps_post"} ELSE {})

C4_HiresSegments(t) ==
    (IF t <= HIRES_UPGRADE * TicksPerDay THEN {"hires_pre"} ELSE {})
    \cup (IF t >= HIRES_UPGRADE * TicksPerDay THEN {"hires_post"} ELSE {})

\* every row of a combined series carries a segment its instrument and time allow
C4_Sound(df) ==
    df.kind = "DataFrame" =>
        \A i \in 1..Len(df.rows) :
            LET r == df.rows[i]
            IN  \/ /\ harps_df # None
                   /\ \E j \in 1..Len(harps_df.rows) : harps_df.rows[j].BJD = r.jd
                   /\ r.tel \in C4_HarpsSegments(r.jd)
                \/ /\ hires_df # None
                   /\ \E j \in 1..Len(hires_df.rows) : hires_df.rows[j].JD = r.jd
                   /\ r.tel \in C4_HiresSegments(r.jd)

\* a raw row enters the concatenation once under each segment of its time, and under no other label
C4_Complete(concat) ==
    /\ harps_df # None =>
         \A j \in 1..Len(harps_df.rows) : \A l \in C4_Labels :
            Cardinality({i \in 1..Len(concat) :
                            /\ concat[i].tel = l
                            /\ concat[i].idx = harps_df.rows[j].idx
                            /\ concat[i].jd = harps_df.rows[j].BJD})
            = IF l \in C4_HarpsSegments(harps_df.rows[j].BJD) THEN 1 ELSE 0
    /\ hires_df # None =>
         \A j \in 1..Len(hires_df.rows) : \A l \in C4_Labels :
            Cardinality({i \in 1..Len(concat) :
                            /\ concat[i].tel = l
                            /\ concat[i].idx = hires_df.rows[j].idx
                            /\ concat[i].jd = hires_df.rows[j].JD})
            = IF l \in C4_HiresSegments(hires_df.rows[j].JD) THEN 1 ELSE 0

\* C4: the segment of a harmonized row depends only on its instrument and its
\* time: HARPS rows with BJD <= 2457163 are harps_pre, with BJD >= 2457173
\* harps_post, those in between are in no segment; HIRES rows with
\* JD <= 2453236 are hires_pre and with JD >= 2453236 hires_post, a row at the
\* boundary being in both; no row carries another label.
C4_SegmentsByBoundary ==
    /\ C4_Sound(rv_data)
    /\ C4_Sound(sind_data)
    /\ S_index_data # Unset =>
         /\ C4_Complete(RvConcat(harps_df, hires_df))
         /\ sind_data.kind = "DataFrame" =>
              C4_Complete(SindConcat(harps_df, hires_df, catalog_entry.BV, HasIV(catalog_entry.SpT)))

\* a HIRES row at the boundary is in both segments, a HARPS row of the gap in none
C4_Witness ==
    /\ rv_data.kind = "DataFrame"
    /\ \E i, j \in 1..Len(rv_data.rows) :
          /\ rv_data.rows[i].tel = "hires_pre"
          /\ rv_data.rows[j].tel = "hires_post"
          /\ rv_data.rows[i].jd = HIRES_UPGRADE * TicksPerDay
          /\ rv_data.rows[j].jd = HIRES_UPGRADE * TicksPerDay
    /\ harps_df # None
    /\ \E j \in 1..Len(harps_df.rows) :
          /\ harps_df.rows[j].BJD = HARPS_PRE_END * TicksPerDay + 1
          /\ \A i \in 1..Len(rv_data.rows) : rv_data.rows[i].jd # harps_df.rows[j].BJD

\* C5: _combine_rvs and _combine_S_indexes never return a series without
\* rows: when no row is left once the rejected rows are removed they fail.
C5_NeverEmpty ==
    /\ rv_data.kind = "DataFrame" => Len(rv_data.rows) > 0
    /\ sind_data.kind = "DataFrame" => Len(sind_data.rows) > 0

\* the combiners have run (line 57 is behind)
C6_Combined == S_index_data # Unset

C7_Exists(dir, name) == \E f \in dir : f.name = name

RECURSIVE C7_First(_, _, _)
\* the outcome of walking an alias list: the table of the first alias with a
\* file, absent (None) if there is none, an error at a missing identifier
C7_First(aliases, dir, suffix) ==
    IF aliases = <<>> THEN None
    ELSE IF IsNaN(Head(aliases)) THEN [kind |-> "error"]
    ELSE IF C7_Exists(dir, Join(Split(Head(aliases))) \o suffix)
    THEN DataFrame((CHOOSE f \in dir : f.name = Join(Split(Head(aliases))) \o suffix).rows)
    ELSE C7_First(Tail(aliases), dir, suffix)

C7_Primary ==
    <<hd_name>> \o (IF HasChar(hd_name, "A") THEN <<Join(AllButLast(Split(hd_name)))>> ELSE <<>>)

C7_Tyc == TycPrefix \o Str(catalog_entry.Tycho2)

C7_FiveAliases == C7_Primary \o <<catalog_entry.GJ, catalog_entry.HIP, C7_Tyc>>
C7_HiresAliases == C7_Primary \o <<catalog_entry.HIP>>

C7_Outcome(df, first) ==
    IF first.kind = "error"
    THEN df = None /\ pc = "raised" /\ exc = "AttributeError"
    ELSE df = first

C8_NoFile(dir, suffix) ==
    \A k \in 1..5 : ~C7_Exists(dir, Stems(hd_name)[k] \o suffix)

\* C8: an instrument without archive is never fatal: if none of its aliases
\* has a file, whatever identifiers the catalog entry lacks, the instrument
\* is recorded absent (None) and the construction goes on to the next step.
C8_AbsenceIsNotFatal ==
    /\ (harps_df # Unset /\ C8_NoFile(harps_dir, CsvSuffix)) =>
          harps_df = None /\ (pc = "raised" => hires_df # Unset)
    /\ (hires_df # Unset /\ C8_NoFile(hires_dir, KeckSuffix)) =>
          hires_df = None /\ (pc = "raised" => C6_Combined)

----------------------------------------------------------------------------
(* Claims on LSPeriodogram *)

\* compute_lsps has been called on a StarData with both series harmonized and
\* not empty, every segment of the RV series spanning a positive baseline
C10_Called ==
    /\ lsp_pc \in {"computed", "raised"}
    /\ rv_data.kind = "DataFrame" /\ sind_data.kind = "DataFrame"
    /\ rv_data.rows # <<>> /\ sind_data.rows # <<>>
    /\ \A tel \in lsp_tels : FreqGrid(OfTel(rv_data.rows, tel)).ok

C10_EntryOk(e, segment) ==
    /\ e.rv_power.n = e.frequency.n
    /\ e.sval_power.n = e.frequency.n
    /\ segment => e.windowfn_power.n = e.frequency.n

\* C10: after compute_lsps on a StarData whose RV and activity series were
\* both harmonized, lsp_dict holds the entry 'all' and one entry per segment
\* of the data, each with RV-power and activity-power arrays as long as its
\* frequency grid, and each segment entry with a window-function array too.
C10_LspDictComplete ==
    C10_Called =>
        /\ lsp_pc = "computed"
        /\ DOMAIN lsp_dict = {"all"} \cup {rv_data.rows[i].tel : i \in 1..Len(rv_data.rows)}
        /\ \A k \in DOMAIN lsp_dict : C10_EntryOk(lsp_dict[k], k # "all")

----------------------------------------------------------------------------
(* Claims on Driver.do_everything *)

C9_Ended == drv_pc \in {"returned", "aborted"}

\* the log of the i-th star of the list ends with DONE or with the skip notice
C9_Handled(i) ==
    /\ i <= Len(log)
    /\ log[i][Len(log[i])] \in {"DONE.", "NUMBER OF RVS < 25. SKIPPING TO NEXT TARGET."}

\* C9: whatever stars of the list fail and wherever they fail, once
\* do_everything has ended every star of the target list has been processed to
\* its end or explicitly skipped; a failure of one star ends the run for no star.
C9_EveryStarHandled ==
    C9_Ended => /\ drv_pc = "returned"
                /\ \A i \in 1..Len(target_list) : C9_Handled(i)

----------------------------------------------------------------------------
(* Claims on the frequency grids *)

C11_Span(t) == MaxOf({t[k] : k \in 1..Len(t)}) - MinOf({t[k] : k \in 1..Len(t)})

\* the power array p is evaluated on the grid of its own series' time span
C11_OwnGrid(p) == p.t # <<>> /\ p.f.baseline = C11_Span(p.t) /\ p.n = GridLen(C11_Span(p.t))

----------------------------------------------------------------------------
(* Claims on compute_fap_thresh *)

C12_FitDefined ==
    /\ fap_ret # Unset
    /\ fap_ret.ok
    /\ Cardinality({i \in DOMAIN fap_ret.val.hist : fap_ret.val.hist[i] > 0}) >= 2

\* C12: for a fixed power array on which the calibration succeeds (the call
\* returns and the line is fitted through at least two bins), the threshold
\* does not decrease as the FAP decreases:
\* threshold(0.01) <= threshold(0.001) <= threshold(0.0001).
C12_ThresholdMonotone ==
    C12_FitDefined => fap_ret.val.thresh_step >= 0

\* C13: when fewer than 2 bins of the histogram of the cropped powers have a
\* count, compute_fap_thresh fails with an error; it returns no pair.
C13_DegenerateFitFails ==
    (fap_ret # Unset /\ fap_ret.ok) =>
        Cardinality({i \in DOMAIN fap_ret.val.hist : fap_ret.val.hist[i] > 0}) >= 2

----------------------------------------------------------------------------
(* Claims on binning *)

C14_RvPts(rows) ==
    [k \in 1..Len(rows) |-> [t |-> rows[k].jd, v |-> rows[k].mnvel,
                             e |-> rows[k].errvel, tel |-> rows[k].tel]]

C14_SindPts(rows) ==
    [k \in 1..Len(rows) |-> [t |-> rows[k].jd, v |-> rows[k].sind,
                             e |-> rows[k].errs, tel |-> rows[k].tel]]

C14_OfTel(pts, tel) == SelectSeq(pts, LAMBDA p : p.tel = tel)

\* the binned points that carry a label are the bins of the input points that
\* carry the same label, and no binned point carries another label
C14_OwnSegment(in_pts, out_pts) ==
    /\ \A i \in 1..Len(out_pts) : \E k \in 1..Len(in_pts) : in_pts[k].tel = out_pts[i].tel
    /\ \A k \in 1..Len(in_pts) :
          C14_OfTel(out_pts, in_pts[k].tel)
            = TimeBin(C14_OfTel(in_pts, in_pts[k].tel), DEFAULT_BIN_SIZE_HALF_DAYS)

\* two rows of different segments less than one bin size apart
C14_CloseSegments(pts) ==
    \E i, j \in 1..Len(pts) :
        /\ pts[i].tel # pts[j].tel
        /\ pts[j].t >= pts[i].t
        /\ 2 * (pts[j].t - pts[i].t) < DEFAULT_BIN_SIZE_HALF_DAYS * TicksPerDay

\* C14: binning never merges measurements of different segments: every binned
\* row is built only from the input rows that carry its own segment label,
\* even when rows of other segments fall inside the same time window.
C14_NoMergeAcrossSegments ==
    /\ (pc \in {"combine_sinds", "bin_sinds", "returned"} /\ rv_data_bin.kind = "DataFrame")
          => C14_OwnSegment(C14_RvPts(rv_data.rows), C14_RvPts(rv_data_bin.rows))
    /\ (pc = "returned" /\ sind_data_bin.kind = "DataFrame")
          => C14_OwnSegment(C14_SindPts(sind_data.rows), C14_SindPts(sind_data_bin.rows))

\* both series binned with rows of two segments inside one window
C14_Witness ==
    /\ pc = "returned"
    /\ rv_data_bin.kind = "DataFrame"
    /\ sind_data_bin.kind = "DataFrame"
    /\ C14_CloseSegments(C14_RvPts(rv_data.rows))
    /\ C14_CloseSegments(C14_SindPts(sind_data.rows))
    /\ Len(rv_data_bin.rows) >= 2
    /\ Len(sind_data_bin.rows) >= 2

C15_Count(pts, tel) == Len(C14_OfTel(pts, tel))

C15_Times(pts, tel) == {pts[k].t : k \in {i \in 1..Len(pts) : pts[i].tel = tel}}

\* every row of the segment is less than one bin size after its earliest row
C15_OneWindow(pts, tel) ==
    /\ C15_Times(pts, tel) # {}
    /\ \A a, b \in C15_Times(pts, tel) :
          2 * (b - a) < DEFAULT_BIN_SIZE_HALF_DAYS * TicksPerDay

C15_Segment(in_pts, out_pts, tel) ==
    /\ C15_Count(out_pts, tel) <= C15_Count(in_pts, tel)
    /\ C15_OneWindow(in_pts, tel) => C15_Count(out_pts, tel) = 1

C16_BinMethods == {"_bin_rvs", "_bin_sinds"}

\* a step in which binning ran: a call of one of the two methods returned, or
\* the constructor stored what one of them returned
C16_BinStep ==
    \/ \E m \in C16_BinMethods : call_hist'[m] # call_hist[m]
    \/ rv_data_bin' # rv_data_bin
    \/ sind_data_bin' # sind_data_bin

----------------------------------------------------------------------------
(* Claims on harmonization run again *)

\* a step in which a combiner ran: a call returned or raised, or the
\* constructor stored what one returned
C17_CombineStep ==
    \/ call_hist'["_combine_rvs"] # call_hist["_combine_rvs"]
    \/ call_hist'["_combine_S_indexes"] # call_hist["_combine_S_indexes"]
    \/ pc \in {"combine_rvs", "combine_sinds"}

\* the constructor's own run of the combiner gave r: it stored the series r
\* returns, or stored no series where r raises
C17_SameAsStored(r, stored) ==
    IF r.ok THEN stored = r.val ELSE stored.kind \in {"None", "unset"}

----------------------------------------------------------------------------
(* Claims on get_periods_from_posterior *)

C18_IsPer(name) ==
    Len(name) >= 3 /\ name[1] = "p" /\ name[2] = "e" /\ name[3] = "r"

C18_Expected == 
    LET P == post_pkl.params
    IN  [k \in 1..Cardinality({i \in 1..Len(P) : C18_IsPer(P[i].name)}) |->
            P[CHOOSE i \in 1..Len(P) :
                /\ C18_IsPer(P[i].name)
                /\ Cardinality({j \in 1..i : C18_IsPer(P[j].name)}) = k].value]

\* C18: get_periods_from_posterior tolerates a missing posterior file: it
\* returns None and raises nothing; when the file exists it returns the list
\* of the values of exactly the parameters whose name starts with 'per', or
\* None when there is none.
C18_PeriodsOrNone ==
    periods_ret # Unset =>
        /\ periods_ret.ok
        /\ ~post_pkl.exists => periods_ret.val.kind = "None"
        /\ post_pkl.exists =>
              IF C18_Expected = <<>>
              THEN periods_ret.val.kind = "None"
              ELSE periods_ret.val.kind = "list" /\ periods_ret.val.items = C18_Expected

\* a posterior with a period among other parameters, one of them with 'per'
\* inside its name
C18_Witness ==
    /\ periods_ret # Unset
    /\ post_pkl.exists
    /\ \E i \in 1..Len(post_pkl.params) : post_pkl.params[i].name = LOGPER1
    /\ \E i \in 1..Len(post_pkl.params) : post_pkl.params[i].name = K1
    /\ periods_ret.val.kind = "list"
    /\ Len(periods_ret.val.items) = 1

----------------------------------------------------------------------------
(* Claims on the objects and streams of do_everything *)

\* the row-count check of the current star has passed and its stages run
C19_InStages == drv_pc \in {"search_rvs", "injrec", "search_sinds", "periodograms", "done"}

\* C19: every stage run for a star (the RV row-count check, RV search,
\* injection-recovery, activity search, periodograms) operates on the StarData
\* built for that same star, never on the object left over from a star
\* processed before, whatever stars failed to load.
C19_StagesUseOwnStarData ==
    C19_InStages => (data.kind = "StarData" /\ data.hd_name = target_list[star_i])

\* C20: whenever do_everything terminates, by returning or by an exception
\* that escapes it, sys.stdout is the stream it was before the call; it is a
\* star's log file only while that star is being processed.
C20_StdoutRestored ==
    /\ C9_Ended => sys_stdout = Console
    /\ drv_pc = "loop" => sys_stdout = Console
    /\ sys_stdout.kind = "file" => sys_stdout.star = target_list[star_i]

----------------------------------------------------------------------------
(* Claims on the skip and the order of the stages *)

C21_Headers ==
    {"Searching RVs...", "Running injections...", "Searching S values...",
     "Computing LS periodograms..."}

\* the stages started for the i-th star, in the order they were started
C21_Stages(i) == SelectSeq(log[i], LAMBDA l : l \in C21_Headers)

\* the stages of a star that passes the check, for the flags of the call
C21_Expected ==
    <<"Searching RVs...">>
    \o (IF inj_rec THEN <<"Running injections...">> ELSE <<>>)
    \o (IF sind THEN <<"Searching S values...">> ELSE <<>>)
    \o <<"Computing LS periodograms...">>

\* the rows of the harmonized RV series of the star being processed
C21_OwnRows == IF rv_data.kind = "DataFrame" THEN Len(rv_data.rows) ELSE 0

\* StarData(star) returned for the current star and its row-count check is over
C21_Checked ==
    /\ star_i >= 1
    /\ pc = "returned"
    /\ drv_pc \notin {"construct", "check"}

C21_IterationOver == drv_pc \in {"loop", "returned"}

\* C21: a star whose harmonized RV series has fewer than 25 rows is skipped:
\* no stage is started for it and the loop goes on to the next star; a star
\* with 25 rows or more has the stages of the call started in the order RV
\* search, injection-recovery, activity search, periodograms, each of them
\* whether or not an earlier one failed.
C21_SkipOrStagesInOrder ==
    C21_Checked =>
        IF C21_OwnRows < MIN_RVS
        THEN /\ C21_IterationOver
             /\ C21_Stages(star_i) = <<>>
             /\ log[star_i][Len(log[star_i])] = "NUMBER OF RVS < 25. SKIPPING TO NEXT TARGET."
        ELSE /\ Len(C21_Stages(star_i)) <= Len(C21_Expected)
             /\ C21_Stages(star_i) = SubSeq(C21_Expected, 1, Len(C21_Stages(star_i)))
             /\ C21_IterationOver =>
                   /\ C21_Stages(star_i) = C21_Expected
                   /\ log[star_i][Len(log[star_i])] = "DONE."

----------------------------------------------------------------------------
(* Claims on the negative activity values *)

\* the concatenated activity series, before any cleaning
C22_Concat == SindConcat(harps_df, hires_df, catalog_entry.BV, HasIV(catalog_entry.SpT))

\* the concatenated series once the rows with a negative value are dropped
C22_NonNegative == DropNegative(C22_Concat)

C22_Vals(rows) == [k \in 1..Len(rows) |-> rows[k].sind]

\* the index labels of the outliers of rows, for the mean and the standard
\* deviation of rows
C22_OutlierLabels(rows) ==
    {rows[i].idx : i \in {j \in 1..Len(rows) :
                            IsOutlier(rows[j].sind, C22_Vals(rows), outlier_threshold)}}

\* the rows of the series left by the negative removal that the outlier
\* rejection keeps when its statistics are those of that series
C22_Kept ==
    {i \in 1..Len(C22_NonNegative) :
        C22_NonNegative[i].idx \notin C22_OutlierLabels(C22_NonNegative)}

C22_Same(r, s) == r.jd = s.jd /\ r.sind = s.sind /\ r.errs = s.errs /\ r.tel = s.tel

\* C22: the activity series returned by _combine_S_indexes holds no row with
\* a negative S-index, whatever instruments are loaded and whatever their
\* rows; the negative rows are removed before the mean and the standard
\* deviation of the outlier rejection are computed: the rows returned are the
\* ones that rejection keeps with the statistics of the negative-free series.
C22_NoNegativeActivity ==
    (pc \in {"bin_sinds", "returned"} /\ sind_data.kind = "DataFrame") =>
        /\ \A k \in 1..Len(sind_data.rows) : sind_data.rows[k].sind >= 0
        /\ Len(sind_data.rows) = Cardinality(C22_Kept)
        /\ \A i \in C22_Kept :
              \E k \in 1..Len(sind_data.rows) : C22_Same(sind_data.rows[k], C22_NonNegative[i])

\* negative rows were removed, a row is left, and it is an outlier for the
\* statistics of the series with the negative rows still in it
C22_Witness ==
    /\ pc = "returned"
    /\ sind_data.kind = "DataFrame"
    /\ \E i \in 1..Len(C22_Concat) : C22_Concat[i].sind < 0
    /\ Len(sind_data.rows) >= 1
    /\ \E k \in 1..Len(sind_data.rows) :
          IsOutlier(sind_data.rows[k].sind, C22_Vals(C22_Concat), outlier_threshold)

====
